---- MODULE Spec2Model ----
(***************************************************************************)
(* A model of zoofuse: a FUSE filesystem backed by a ZooKeeper tree.       *)
(*                                                                         *)
(*   - the path translator ZooHandle.ZKPath (zookeeper.go), computed on    *)
(*     strings represented as sequences of one-character strings, with     *)
(*     path/filepath's Clean, Join and Rel computed lexically as Go does;  *)
(*   - the gateway ZooHandle (zookeeper.go) in front of the wire client;   *)
(*   - the filesystem adapter FuseFS (fuse.go);                            *)
(*   - the open file FuseFile (fusefile.go);                               *)
(*   - the goroutines of FuseFS.OpenDir, one step per shared-memory or     *)
(*     channel operation.                                                  *)
(***************************************************************************)
EXTENDS Integers, Sequences, FiniteSets, TLC

VARIABLES
    ZKRoot,       \* ZooHandle.ZKRoot: the root alias (a string)
    FuseMount,    \* ZooHandle.FuseMount: the mount point (a string)
    IsReadWrite,  \* FuseFS.IsReadWrite
    tree,         \* the remote store: ZooKeeper path -> NoNode or Node(data)
    ff,           \* the open FuseFile (NoFile when none is open)
    ret,          \* the last operation: its arguments, results and calls
    zkIn,         \* path translator: the last path given to ZKPath
    zkOut,        \* path translator: what ZKPath returned for it
    dpc,          \* OpenDir: where the coordinating call is
    children,     \* OpenDir: the names listChildren returned
    wpc,          \* OpenDir: where each probe goroutine is
    probe,        \* OpenDir: what each goroutine's Exists returned
    chanLimiter,  \* OpenDir: the channel's capacity and the tokens in it
    arrays,       \* OpenDir: the backing arrays allocated for dirEntries
    dirEntries,   \* OpenDir: the slice header [ptr, len, cap]
    loaded,       \* OpenDir: the header each goroutine's append loaded
    dirRet,       \* OpenDir: what the call returned
    workers       \* OpenDir: how many probe goroutines are at each position

cfgVars  == <<ZKRoot, FuseMount, IsReadWrite>>
fsVars   == <<tree, ff, ret>>
pathVars == <<zkIn, zkOut>>
dirVars  == <<dpc, children, wpc, probe, chanLimiter, arrays, dirEntries, loaded, dirRet>>
limitVars == <<workers>>
vars     == <<cfgVars, fsVars, pathVars, dirVars, limitVars>>

---------------------------------------------------------------------------
(* Bounds of the model.                                                    *)

MaxSegs == 3        \* segments of a path given to ZKPath
MaxData == 2        \* bytes of a payload
MaxBuf == 2         \* length of a read buffer
MaxChildren == 3    \* names listChildren returns
MaxOver == 1        \* children beyond MaxConcurrentRequests

---------------------------------------------------------------------------
(* Strings: a Go string is a sequence of one-character strings.            *)

Slash == <<"/">>
Dot == <<".">>
DotDot == <<".", ".">>
Empty == <<>>

\* ZNodeMarker, the name of the entry that exposes a directory's own data.
ZNodeMarker == <<"_","_","z","n","o","d","e","_","d","a","t","a","_","_">>

\* strings.HasSuffix
HasSuffix(s, suffix) ==
    /\ Len(s) >= Len(suffix)
    /\ SubSeq(s, Len(s) - Len(suffix) + 1, Len(s)) = suffix

\* strings.HasPrefix
HasPrefix(s, prefix) ==
    /\ Len(s) >= Len(prefix)
    /\ SubSeq(s, 1, Len(prefix)) = prefix

\* strings.Split(s, "/")
RECURSIVE Split(_)
Split(s) ==
    IF \A i \in 1..Len(s) : s[i] # "/"
    THEN <<s>>
    ELSE LET i == CHOOSE k \in 1..Len(s) :
                      s[k] = "/" /\ \A j \in 1..(k - 1) : s[j] # "/"
         IN  <<SubSeq(s, 1, i - 1)>> \o Split(SubSeq(s, i + 1, Len(s)))

\* strings.Join(segs, "/")
RECURSIVE JoinSlash(_)
JoinSlash(segs) ==
    IF segs = <<>> THEN Empty
    ELSE IF Len(segs) = 1 THEN segs[1]
    ELSE segs[1] \o Slash \o JoinSlash(Tail(segs))

\* The element loop of filepath.Clean: empty and "." elements are dropped, ".."
\* removes the element before it, is dropped at the root of a rooted path and is
\* kept at the front of a relative one.
RECURSIVE CleanSegs(_, _, _)
CleanSegs(segs, out, rooted) ==
    IF segs = <<>> THEN out
    ELSE LET h == Head(segs)
             t == Tail(segs)
         IN  IF h = Empty \/ h = Dot THEN CleanSegs(t, out, rooted)
             ELSE IF h = DotDot
             THEN IF out # <<>> /\ out[Len(out)] # DotDot
                  THEN CleanSegs(t, SubSeq(out, 1, Len(out) - 1), rooted)
                  ELSE IF rooted THEN CleanSegs(t, out, rooted)
                  ELSE CleanSegs(t, Append(out, DotDot), rooted)
             ELSE CleanSegs(t, Append(out, h), rooted)

\* filepath.Clean, from the cleaned elements on
CleanOut(rooted, out) ==
    IF rooted THEN Slash \o out
    ELSE IF out = Empty THEN Dot
    ELSE out

\* filepath.Clean
Clean(path) ==
    IF path = Empty THEN Dot
    ELSE CleanOut(path[1] = "/",
                  JoinSlash(CleanSegs(Split(path), <<>>, path[1] = "/")))

\* filepath.Join: the elements from the first non-empty one on, joined and cleaned.
RECURSIVE Join(_)
Join(elem) ==
    IF elem = <<>> THEN Empty
    ELSE IF Head(elem) = Empty THEN Join(Tail(elem))
    ELSE Clean(JoinSlash(elem))

\* The elements filepath.Rel walks over: those of a cleaned path, the root's slash
\* being one empty element.
RelSegs(p) ==
    IF p = Empty THEN <<>>
    ELSE IF p = Slash THEN <<Empty>>
    ELSE Split(p)

\* The number of leading elements two element lists share.
RECURSIVE CommonLen(_, _)
CommonLen(a, b) ==
    IF a = <<>> \/ b = <<>> THEN 0
    ELSE IF Head(a) # Head(b) THEN 0
    ELSE 1 + CommonLen(Tail(a), Tail(b))

\* filepath.Rel, from the first differing elements on (the first c are shared):
\* it fails when the base's is "..", and else goes up the rest of the base and
\* down the rest of the target.
RelFrom(bs, ts, c) ==
    IF c < Len(bs) /\ c < Len(ts) /\ bs[c + 1] = DotDot
    THEN [path |-> Empty, err |-> TRUE]
    ELSE [path |-> JoinSlash([i \in 1..(Len(bs) - c) |-> DotDot]
                             \o SubSeq(ts, c + 1, Len(ts))),
          err |-> FALSE]

\* filepath.Rel, from the cleaned paths on (a base of "." is the empty base): it
\* fails when only one of the two is rooted.
RelBase(base, targ) ==
    IF (base # Empty /\ base[1] = "/") # (targ # Empty /\ targ[1] = "/")
    THEN [path |-> Empty, err |-> TRUE]
    ELSE RelFrom(RelSegs(base), RelSegs(targ),
                 CommonLen(RelSegs(base), RelSegs(targ)))

RelClean(base, targ) ==
    IF targ = base THEN [path |-> Dot, err |-> FALSE]
    ELSE RelBase(IF base = Dot THEN Empty ELSE base, targ)

\* filepath.Rel: [path, err]
Rel(basepath, targpath) == RelClean(Clean(basepath), Clean(targpath))

---------------------------------------------------------------------------
(* The path translator.                                                    *)

\* ZKPathRel with the parts concatenated instead of joined by filepath.Join.
ZKPathRelConcat(zkRoot, r) ==
    IF r.err THEN zkRoot
    ELSE zkRoot \o Slash \o r.path

\* ZooHandle.ZKPath, from the result of filepath.Rel on
ZKPathRel(zkRoot, r) ==
    IF r.err THEN Join(<<Slash, zkRoot>>)
    ELSE Join(<<Slash, zkRoot, r.path>>)

\* ZooHandle.ZKPath with its receiver's fields as parameters.
ZKPathOf(zkRoot, fuseMount, path) ==
    ZKPathRel(zkRoot, Rel(fuseMount, Join(<<fuseMount, path>>)))

\* ZooHandle.ZKPath
ZKPath(path) == ZKPathOf(ZKRoot, FuseMount, path)

\* The root aliases and mount points of the model.
ZKRoots == {Slash, <<"/", "c">>, <<"/", "c", "/", "e">>}
FuseMounts == {<<"/", "m">>, <<"m">>}

---------------------------------------------------------------------------
(* Constants of the program.                                               *)

IfDirRW == 493      \* 0755
IfDirRO == 365      \* 0555
IfRegRW == 420      \* 0644
IfRegRO == 292      \* 0444
S_IFDIR == 16384    \* fuse.S_IFDIR, 0040000
S_IFREG == 32768    \* fuse.S_IFREG, 0100000
MaxConcurrentRequests == 25
MaxZnodeData == 1048576

\* The version given to Set and Delete: any version.
AnyVersion == 0 - 1

\* Go's | on unsigned integers.
RECURSIVE BitOr(_, _)
BitOr(a, b) ==
    IF a = 0 THEN b
    ELSE IF b = 0 THEN a
    ELSE (IF a % 2 = 1 \/ b % 2 = 1 THEN 1 ELSE 0) + 2 * BitOr(a \div 2, b \div 2)

\* dirPermissions
dirPermissions(isReadWrite) == IF isReadWrite THEN IfDirRW ELSE IfDirRO

\* filePermissions
filePermissions(isReadWrite) == IF isReadWrite THEN IfRegRW ELSE IfRegRO

---------------------------------------------------------------------------
(* The remote store behind the wire client z.zk. A node is named by its    *)
(* absolute path and holds a payload; its child count is the number of     *)
(* nodes directly below it. Every call may fail (fail: the connection).    *)

\* An absent node, a node holding data, and no open file.
NoNode == [present |-> FALSE, data |-> <<>>]
Node(data) == [present |-> TRUE, data |-> data]
NoFile == [open |-> FALSE, data |-> <<>>, path |-> <<>>, mode |-> 0, size |-> 0]

\* The payloads of the model: 1, 2, ... up to MaxData bytes.
Contents == {[i \in 1..n |-> i] : n \in 0..MaxData}

\* The paths the filesystem operations are called with: a node, the marker
\* name below it and the marker name below that.
PathD == <<"d">>
PathDM == PathD \o Slash \o ZNodeMarker
PathDMM == PathDM \o Slash \o ZNodeMarker
FsPaths == {PathD, PathDM, PathDMM}

\* The nodes of the store that these paths name.
ZkNodes == {ZKPath(p) : p \in FsPaths}

\* zp is directly below the node p (both are clean paths).
IsChildOf(zp, p) ==
    /\ Len(zp) > Len(p)
    /\ HasPrefix(zp, IF p = Slash THEN p ELSE p \o Slash)
    /\ \A i \in (Len(IF p = Slash THEN p ELSE p \o Slash) + 1)..Len(zp) : zp[i] # "/"

\* zp is p or a node anywhere below it.
IsBelow(zp, p) ==
    zp = p \/ HasPrefix(zp, IF p = Slash THEN p ELSE p \o Slash)

Present(t, zp) == zp \in DOMAIN t /\ t[zp].present

Kids(t, zp) == {q \in DOMAIN t : t[q].present /\ IsChildOf(q, zp)}

\* zk.Stat, the fields the program reads
Stat(t, zp) ==
    [NumChildren |-> Cardinality(Kids(t, zp)), DataLength |-> Len(t[zp].data)]
NilStat == [NumChildren |-> 0, DataLength |-> 0]

Call(op, path, data, version) ==
    [op |-> op, path |-> path, data |-> data, version |-> version]

\* The results of the wire client: what it returns, and the store after the call.
WireExists(t, zp, fail) ==
    IF fail THEN [found |-> FALSE, stat |-> NilStat, err |-> TRUE]
    ELSE IF ~Present(t, zp) THEN [found |-> FALSE, stat |-> NilStat, err |-> FALSE]
    ELSE [found |-> TRUE, stat |-> Stat(t, zp), err |-> FALSE]

WireGet(t, zp, fail) ==
    IF fail \/ ~Present(t, zp) THEN [data |-> <<>>, stat |-> NilStat, err |-> TRUE]
    ELSE [data |-> t[zp].data, stat |-> Stat(t, zp), err |-> FALSE]

WireSet(t, zp, data, version, fail) ==
    IF fail \/ ~Present(t, zp) THEN [t |-> t, stat |-> NilStat, err |-> TRUE]
    ELSE [t |-> [t EXCEPT ![zp] = Node(data)],
          stat |-> [NumChildren |-> Cardinality(Kids(t, zp)), DataLength |-> Len(data)],
          err |-> FALSE]

\* A node is created below an existing node (the nodes outside the model exist).
WireCreate(t, zp, data, fail) ==
    IF \/ fail
       \/ zp \notin DOMAIN t
       \/ t[zp].present
       \/ \E p \in DOMAIN t : IsChildOf(zp, p) /\ ~t[p].present
    THEN [t |-> t, err |-> TRUE]
    ELSE [t |-> [t EXCEPT ![zp] = Node(data)], err |-> FALSE]

\* A node with children is deleted only when its children went away in between
\* (race: another client removed them after the caller last looked).
WireDelete(t, zp, version, fail, race) ==
    IF fail \/ ~Present(t, zp) \/ (Kids(t, zp) # {} /\ ~race)
    THEN [t |-> t, err |-> TRUE]
    ELSE [t |-> [q \in DOMAIN t |-> IF IsBelow(q, zp) THEN NoNode ELSE t[q]],
          err |-> FALSE]

---------------------------------------------------------------------------
(* The gateway ZooHandle: translate the path, delegate to the wire client  *)
(* and return its result unchanged. wire is the list of the calls that     *)
(* reached the wire client.                                                *)

Delegate(call, result) == [wire |-> <<call>>] @@ result

ExistsAt(t, zp, fail) ==
    Delegate(Call("Exists", zp, <<>>, 0), WireExists(t, zp, fail))
GetAt(t, zp, fail) ==
    Delegate(Call("Get", zp, <<>>, 0), WireGet(t, zp, fail))
SetAt(t, zp, data, version, fail) ==
    Delegate(Call("Set", zp, data, version), WireSet(t, zp, data, version, fail))
CreateAt(t, zp, data, fail) ==
    Delegate(Call("Create", zp, data, 0), WireCreate(t, zp, data, fail))
DeleteAt(t, zp, version, fail, race) ==
    Delegate(Call("Delete", zp, <<>>, version), WireDelete(t, zp, version, fail, race))

\* ZooHandle.Exists
ZooHandleExists(t, path, fail) == ExistsAt(t, ZKPath(path), fail)

\* ZooHandle.Get
ZooHandleGet(t, path, fail) == GetAt(t, ZKPath(path), fail)

\* PayloadTooLarge refusing a payload of the maximum size as well.
PayloadTooLargeInclusive(n) == n >= MaxZnodeData

\* The size check of ZooHandle.Set
PayloadTooLarge(n) == n > MaxZnodeData

\* ZooHandle.Set
ZooHandleSet(t, path, data, version, fail) ==
    IF PayloadTooLarge(Len(data))
    THEN [t |-> t, stat |-> NilStat, err |-> TRUE, wire |-> <<>>]
    ELSE SetAt(t, ZKPath(path), data, version, fail)

\* ZooHandle.Create
ZooHandleCreate(t, path, data, fail) == CreateAt(t, ZKPath(path), data, fail)

\* ZooHandle.Delete
ZooHandleDelete(t, path, version, fail, race) ==
    DeleteAt(t, ZKPath(path), version, fail, race)

---------------------------------------------------------------------------
(* What an operation leaves behind: [ret, t, f], its result, the store and *)
(* the open file after it. ret holds the operation's name and arguments    *)
(* (path, content, off, buflen), its results (status; mode and size of     *)
(* GetAttr; data of Read; n of Write; panic when the call panicked instead *)
(* of returning), the calls it made to the gateway (calls) and those that  *)
(* reached the wire client (wire).                                         *)

NoRet ==
    [op |-> "none", path |-> Empty, content |-> <<>>, off |-> 0, buflen |-> 0,
     status |-> "none", panic |-> FALSE, mode |-> 0, size |-> 0, data |-> <<>>,
     n |-> 0, calls |-> <<>>, wire |-> <<>>]

Returned(r, status) == [r EXCEPT !.status = status]

Called(r, call, g) == [r EXCEPT !.calls = @ \o <<call>>, !.wire = @ \o g.wire]

---------------------------------------------------------------------------
(* The open file FuseFile.                                                 *)

\* NewFuseFile: the payload snapshot, the path, and attr.Mode and attr.Size.
NewFuseFile(data, mode, path) ==
    [open |-> TRUE, data |-> data, path |-> path, mode |-> BitOr(mode, IfRegRW),
     size |-> Len(data)]

\* ReadSlice returning an empty result for an offset past the end.
ReadSliceClamped(r, f, off, end) ==
    IF off < 0 \/ off > end
    THEN [r EXCEPT !.status = "OK", !.data = <<>>]
    ELSE [r EXCEPT !.status = "OK", !.data = SubSeq(f.data, off + 1, end)]

\* FuseFile.Read, from the computed end on: the slice expression
\* f.data[off:end] panics when off > end.
ReadSlice(r, f, off, end) ==
    IF off < 0 \/ off > end
    THEN [r EXCEPT !.panic = TRUE]
    ELSE [r EXCEPT !.status = "OK", !.data = SubSeq(f.data, off + 1, end)]

\* ReadResult with the end computed from the buffer's length alone.
ReadResultBufEnd(f, buflen, off) ==
    ReadSlice([NoRet EXCEPT !.op = "Read", !.path = f.path, !.off = off,
                            !.buflen = buflen],
              f, off,
              IF buflen > Len(f.data) THEN Len(f.data) ELSE buflen)

\* FuseFile.Read
ReadResult(f, buflen, off) ==
    ReadSlice([NoRet EXCEPT !.op = "Read", !.path = f.path, !.off = off,
                            !.buflen = buflen],
              f, off,
              IF off + buflen > Len(f.data) THEN Len(f.data) ELSE off + buflen)

\* WriteSet recording the returned length whether or not Set failed.
WriteSetSized(r, f, s) ==
    [ret |-> [r EXCEPT !.n = s.stat.DataLength,
                       !.status = IF s.err THEN "EIO" ELSE "OK"],
     t |-> s.t,
     f |-> [f EXCEPT !.size = s.stat.DataLength]]

\* FuseFile.Write, after f.zh.Set returned s
WriteSet(r, f, s) ==
    IF s.err
    THEN [ret |-> [r EXCEPT !.n = 0, !.status = "EIO"], t |-> s.t, f |-> f]
    ELSE [ret |-> [r EXCEPT !.n = s.stat.DataLength, !.status = "OK"],
          t |-> s.t,
          f |-> [f EXCEPT !.size = s.stat.DataLength]]

\* WriteCall keeping the written content as the handle's data.
WriteCallRefreshes(r, f, content, s) ==
    WriteSet(Called(r, Call("Set", f.path, content, AnyVersion), s),
             [f EXCEPT !.data = content], s)

\* FuseFile.Write: the call of f.zh.Set
WriteCall(r, f, content, s) ==
    WriteSet(Called(r, Call("Set", f.path, content, AnyVersion), s), f, s)

\* WriteResult without the early return for empty content.
WriteResultAlwaysSet(t, f, content, off, fail) ==
    WriteCall([NoRet EXCEPT !.op = "Write", !.path = f.path, !.off = off,
                            !.content = content],
              f, content, ZooHandleSet(t, f.path, content, AnyVersion, fail))

\* FuseFile.Write
WriteResult(t, f, content, off, fail) ==
    IF Len(content) = 0
    THEN [ret |-> [NoRet EXCEPT !.op = "Write", !.path = f.path, !.off = off,
                                !.content = content, !.n = 0, !.status = "OK"],
          t |-> t, f |-> f]
    ELSE WriteCall([NoRet EXCEPT !.op = "Write", !.path = f.path, !.off = off,
                                 !.content = content],
                   f, content, ZooHandleSet(t, f.path, content, AnyVersion, fail))

---------------------------------------------------------------------------
(* The filesystem adapter FuseFS.                                          *)

\* GetAttrMode without the marker case.
GetAttrModeByChildren(path, numChildren, isReadWrite) ==
    IF numChildren = 0 THEN BitOr(S_IFREG, filePermissions(isReadWrite))
    ELSE BitOr(S_IFDIR, dirPermissions(isReadWrite))

\* The mode GetAttr gives an existing node.
GetAttrMode(path, numChildren, isReadWrite) ==
    IF HasSuffix(path, ZNodeMarker) THEN BitOr(S_IFREG, IfRegRO)
    ELSE IF numChildren = 0 THEN BitOr(S_IFREG, filePermissions(isReadWrite))
    ELSE BitOr(S_IFDIR, dirPermissions(isReadWrite))

\* FuseFS.GetAttr, after f.zh.Exists returned e
GetAttrExists(r, path, e) ==
    IF e.err \/ ~e.found
    THEN Returned(r, "ENOENT")
    ELSE [r EXCEPT !.status = "OK",
                   !.mode = GetAttrMode(path, e.stat.NumChildren, IsReadWrite),
                   !.size = e.stat.DataLength]

GetAttrCall(r, path, e) ==
    GetAttrExists(Called(r, Call("Exists", path, <<>>, 0), e), path, e)

\* FuseFS.GetAttr
GetAttrResult(t, f, path, fail) ==
    [ret |-> IF path = Empty
             THEN [NoRet EXCEPT !.op = "GetAttr", !.path = path, !.status = "OK",
                                !.mode = BitOr(S_IFDIR, dirPermissions(IsReadWrite))]
             ELSE GetAttrCall([NoRet EXCEPT !.op = "GetAttr", !.path = path],
                              path, ZooHandleExists(t, path, fail)),
     t |-> t, f |-> f]

\* FuseFS.Create, after f.zh.Create returned c
CreateCreated(r, f, path, c) ==
    IF c.err
    THEN [ret |-> Returned(r, "ENOENT"), t |-> c.t, f |-> f]
    ELSE [ret |-> Returned(r, "OK"), t |-> c.t, f |-> NewFuseFile(<<>>, IfRegRW, path)]

CreateCall(r, f, path, c) ==
    CreateCreated(Called(r, Call("Create", path, <<>>, 0), c), f, path, c)

\* FuseFS.Create
CreateResult(t, f, path, fail) ==
    CreateCall([NoRet EXCEPT !.op = "Create", !.path = path], f, path,
               ZooHandleCreate(t, path, <<>>, fail))

\* FuseFS.Open, after f.zh.Get returned g
OpenGot(r, t, f, path, g) ==
    IF g.err
    THEN [ret |-> Returned(r, "ENOENT"), t |-> t, f |-> f]
    ELSE [ret |-> Returned(r, "OK"), t |-> t, f |-> NewFuseFile(g.data, IfRegRW, path)]

OpenCall(r, t, f, path, g) ==
    OpenGot(Called(r, Call("Get", path, <<>>, 0), g), t, f, path, g)

\* FuseFS.Open
OpenResult(t, f, path, fail) ==
    OpenCall([NoRet EXCEPT !.op = "Open", !.path = path], t, f, path,
             ZooHandleGet(t, path, fail))

\* FuseFS.Unlink and FuseFS.Rmdir, after f.zh.Delete returned d with an error:
\* the status each returns
UnlinkDeleteFailed == "EIO"
RmdirDeleteFailed == "ENOENT"

\* after f.zh.Delete returned d
Deleted(r, f, path, d, failed) ==
    [ret |-> Returned(Called(r, Call("Delete", path, <<>>, AnyVersion), d),
                      IF d.err THEN failed ELSE "OK"),
     t |-> d.t, f |-> f]

\* UnlinkRefused comparing the whole path with the marker name.
UnlinkRefusedExact(path) == path = ZNodeMarker

\* The guard of FuseFS.Unlink: the marker is not removed.
UnlinkRefused(path) == HasSuffix(path, ZNodeMarker)

\* FuseFS.Unlink
UnlinkResult(t, f, path, fail, race) ==
    IF UnlinkRefused(path)
    THEN [ret |-> [NoRet EXCEPT !.op = "Unlink", !.path = path, !.status = "EPERM"],
          t |-> t, f |-> f]
    ELSE Deleted([NoRet EXCEPT !.op = "Unlink", !.path = path], f, path,
                 ZooHandleDelete(t, path, AnyVersion, fail, race),
                 UnlinkDeleteFailed)

\* RmdirExists without the test of the child count.
RmdirExistsAnyCount(r, t, f, path, e, fail2, race) ==
    IF e.err \/ ~e.found
    THEN [ret |-> Returned(r, "ENOENT"), t |-> t, f |-> f]
    ELSE Deleted(r, f, path, ZooHandleDelete(t, path, AnyVersion, fail2, race),
                 RmdirDeleteFailed)

\* FuseFS.Rmdir, after f.zh.Exists returned e
RmdirExists(r, t, f, path, e, fail2, race) ==
    IF e.err \/ ~e.found
    THEN [ret |-> Returned(r, "ENOENT"), t |-> t, f |-> f]
    ELSE IF e.stat.NumChildren = 0
    THEN [ret |-> Returned(r, "ENOTDIR"), t |-> t, f |-> f]
    ELSE Deleted(r, f, path, ZooHandleDelete(t, path, AnyVersion, fail2, race),
                 RmdirDeleteFailed)

RmdirCall(r, t, f, path, e, fail2, race) ==
    RmdirExists(Called(r, Call("Exists", path, <<>>, 0), e), t, f, path, e, fail2, race)

\* FuseFS.Rmdir
RmdirResult(t, f, path, fail1, fail2, race) ==
    RmdirCall([NoRet EXCEPT !.op = "Rmdir", !.path = path], t, f, path,
              ZooHandleExists(t, path, fail1), fail2, race)

---------------------------------------------------------------------------
(* The filesystem operations as actions: each request is one call.         *)

fsFrame == UNCHANGED <<cfgVars, pathVars, dirVars, limitVars>>

Apply(res) ==
    /\ ret' = res.ret
    /\ tree' = res.t
    /\ ff' = res.f

GetAttr ==
    /\ \E path \in FsPaths \cup {Empty}, fail \in BOOLEAN :
           Apply(GetAttrResult(tree, ff, path, fail))
    /\ fsFrame

Create ==
    /\ \E path \in FsPaths, fail \in BOOLEAN :
           Apply(CreateResult(tree, ff, path, fail))
    /\ fsFrame

Open ==
    /\ \E path \in FsPaths, fail \in BOOLEAN :
           Apply(OpenResult(tree, ff, path, fail))
    /\ fsFrame

Unlink ==
    /\ \E path \in FsPaths, fail \in BOOLEAN, race \in BOOLEAN :
           Apply(UnlinkResult(tree, ff, path, fail, race))
    /\ fsFrame

Rmdir ==
    /\ \E path \in FsPaths, fail1 \in BOOLEAN, fail2 \in BOOLEAN, race \in BOOLEAN :
           Apply(RmdirResult(tree, ff, path, fail1, fail2, race))
    /\ fsFrame

\* FuseFS.Truncate
Truncate ==
    /\ \E path \in FsPaths :
           Apply([ret |-> [NoRet EXCEPT !.op = "Truncate", !.path = path, !.status = "OK"],
                  t |-> tree, f |-> ff])
    /\ fsFrame

\* FuseFS.Utimens
Utimens ==
    /\ \E path \in FsPaths :
           Apply([ret |-> [NoRet EXCEPT !.op = "Utimens", !.path = path, !.status = "OK"],
                  t |-> tree, f |-> ff])
    /\ fsFrame

Read ==
    /\ ff.open
    /\ \E buflen \in 0..MaxBuf, off \in 0..(MaxData + 1) :
           Apply([ret |-> ReadResult(ff, buflen, off), t |-> tree, f |-> ff])
    /\ fsFrame

Write ==
    /\ ff.open
    /\ \E content \in Contents, off \in 0..1, fail \in BOOLEAN :
           Apply(WriteResult(tree, ff, content, off, fail))
    /\ fsFrame

\* Another client of the store creates, rewrites or deletes a node; what it
\* writes is the empty payload or the longest one.
External ==
    /\ \E zp \in DOMAIN tree, data \in {<<>>, [i \in 1..MaxData |-> i]} :
           \/ tree' = WireSet(tree, zp, data, AnyVersion, FALSE).t
           \/ tree' = WireCreate(tree, zp, data, FALSE).t
           \/ tree' = WireDelete(tree, zp, AnyVersion, FALSE, FALSE).t
    /\ tree' # tree
    /\ UNCHANGED <<ff, ret>>
    /\ fsFrame

---------------------------------------------------------------------------
(* Spec: the operations of the adapter on the paths of a mounted tree.     *)

pathIdle == zkIn = Empty /\ zkOut = Empty
NoWorkers == [n |-> 0, acquire |-> 0, probe |-> 0, release |-> 0, done |-> 0]
dirIdle ==
    /\ dpc = "idle"
    /\ workers = NoWorkers
    /\ children = <<>>
    /\ wpc = <<>>
    /\ probe = <<>>
    /\ chanLimiter = [cap |-> 0, len |-> 0]
    /\ arrays = <<>>
    /\ dirEntries = [ptr |-> 0, len |-> 0, cap |-> 0]
    /\ loaded = <<>>
    /\ dirRet = [status |-> "none", entries |-> <<>>]

Init ==
    /\ ZKRoot = <<"/", "c">>
    /\ FuseMount = <<"/", "m">>
    /\ IsReadWrite \in BOOLEAN
    /\ tree = [zp \in ZkNodes |-> NoNode]
    /\ ff = NoFile
    /\ ret = NoRet
    /\ pathIdle
    /\ dirIdle

Next ==
    \/ GetAttr
    \/ Create
    \/ Open
    \/ Unlink
    \/ Rmdir
    \/ Truncate
    \/ Utimens
    \/ External

Spec == Init /\ [][Next]_vars

---------------------------------------------------------------------------
(* SpecFile: opening, reading and writing one node of the store.           *)

InitFile ==
    /\ ZKRoot = <<"/", "c">>
    /\ FuseMount = <<"/", "m">>
    /\ IsReadWrite \in BOOLEAN
    /\ tree = [zp \in {ZKPath(PathD)} |-> NoNode]
    /\ ff = NoFile
    /\ ret = NoRet
    /\ pathIdle
    /\ dirIdle

NextFile ==
    \/ Create
    \/ Open
    \/ Read
    \/ Write
    \/ External

SpecFile == InitFile /\ [][NextFile]_vars

---------------------------------------------------------------------------
(* SpecSet: calls of ZooHandle.Set on one node, with payloads of a few     *)
(* bytes and payloads one byte under, at and one byte over MaxZnodeData.   *)

\* A payload of n zero bytes
Payload(n) == [i \in 1..n |-> 0]

UnderPayload == Payload(MaxZnodeData - 1)
MaxPayload == Payload(MaxZnodeData)
OverPayload == Payload(MaxZnodeData + 1)

SetPayloads == Contents \cup {UnderPayload, MaxPayload, OverPayload}

\* ZooHandle.Set as an operation of its own, after it returned s: ret holds the
\* payload's length n, "error" or "OK", and the call that reached the wire.
SetReturned(r, f, s) ==
    [ret |-> [r EXCEPT !.status = IF s.err THEN "error" ELSE "OK", !.wire = s.wire],
     t |-> s.t, f |-> f]

SetResult(t, f, path, data, fail) ==
    SetReturned([NoRet EXCEPT !.op = "Set", !.path = path, !.n = Len(data)],
                f, ZooHandleSet(t, path, data, AnyVersion, fail))

Set ==
    /\ \E data \in SetPayloads, fail \in BOOLEAN :
           Apply(SetResult(tree, ff, PathD, data, fail))
    /\ fsFrame

InitSet ==
    /\ ZKRoot = <<"/", "c">>
    /\ FuseMount = <<"/", "m">>
    /\ IsReadWrite \in BOOLEAN
    /\ tree = [zp \in {ZKPath(PathD)} |-> Node(<<>>)]
    /\ ff = NoFile
    /\ ret = NoRet
    /\ pathIdle
    /\ dirIdle

NextSet ==
    \/ Set
    \/ External

SpecSet == InitSet /\ [][NextSet]_vars

---------------------------------------------------------------------------
(* SpecPath: ZKPath applied to a path, for each root alias and mount point.*)

\* The elements the paths given to ZKPath are made of.
PathSegs == {<<"a">>, Dot, DotDot, Empty, ZNodeMarker}

\* The paths given to ZKPath: up to MaxSegs elements joined by slashes.
PathInputs ==
    {JoinSlash(segs) : segs \in UNION {[1..n -> PathSegs] : n \in 0..MaxSegs}}

InitPath ==
    /\ ZKRoot \in ZKRoots
    /\ FuseMount \in FuseMounts
    /\ IsReadWrite = FALSE
    /\ tree = <<>>
    /\ ff = NoFile
    /\ ret = NoRet
    /\ zkIn \in PathInputs
    /\ zkOut = Empty
    /\ dirIdle

\* One call of ZKPath. What it returns is never the empty string.
Translate ==
    /\ zkOut = Empty
    /\ zkOut' = ZKPath(zkIn)
    /\ UNCHANGED <<zkIn, cfgVars, fsVars, dirVars, limitVars>>

NextPath == Translate

SpecPath == InitPath /\ [][NextPath]_vars

---------------------------------------------------------------------------
(* SpecDir: one call of FuseFS.OpenDir. The call lists the children, starts *)
(* one goroutine per child and waits for all of them; a goroutine takes a   *)
(* token of chanLimiter, probes its child with Exists and appends an entry  *)
(* to the shared slice dirEntries. There is no lock around the append, so   *)
(* each of its memory operations is a step of its own: the load of the      *)
(* slice header, the allocation and copy when the capacity is exhausted,    *)
(* the store of the element and the store of the header (of its length      *)
(* alone when the slice did not grow), the last two in either order.        *)

Min(a, b) == IF a < b THEN a ELSE b

\* fuse.DirEntry, and the zero value an unwritten array element holds
DirEntry(name, mode) == [Name |-> name, Mode |-> mode]
NilEntry == [Name |-> Empty, Mode |-> 0]

\* The entry for the directory's own data
MarkerEntry == DirEntry(ZNodeMarker, S_IFREG)

\* The i-th name listChildren returns: "c", "cc", ...
ChildName(i) == [j \in 1..i |-> "c"]

\* What Exists returns to a probe: the store may change under the listing.
ProbeResults ==
    {[err |-> TRUE, found |-> FALSE, NumChildren |-> 0],
     [err |-> FALSE, found |-> FALSE, NumChildren |-> 0],
     [err |-> FALSE, found |-> TRUE, NumChildren |-> 0],
     [err |-> FALSE, found |-> TRUE, NumChildren |-> 1]}
NoProbe == [err |-> FALSE, found |-> FALSE, NumChildren |-> 0]

\* The entry a goroutine appends for a child it found
ProbeEntry(name, r) ==
    DirEntry(name, IF r.NumChildren > 0 THEN S_IFDIR ELSE S_IFREG)

\* A backing array of cap elements, the first ones given
MakeArray(cap, elems) ==
    [i \in 1..cap |-> IF i <= Len(elems) THEN elems[i] ELSE NilEntry]

\* The elements of the slice with header h
SliceOf(as, h) == IF h.ptr = 0 THEN <<>> ELSE SubSeq(as[h.ptr], 1, h.len)

\* The header a goroutine's append works on, and what it has stored so far
NoLoad ==
    [ptr |-> 0, len |-> 0, cap |-> 0, grown |-> FALSE, elem |-> FALSE, header |-> FALSE]

dirFrame == UNCHANGED <<cfgVars, fsVars, pathVars, limitVars>>

\* OpenDir up to the loop: Children, the marker entry, the early return for no
\* children, and the channel of min(MaxConcurrentRequests, len(children)) slots.
OpenDirList ==
    /\ dpc = "idle"
    /\ \E fail \in BOOLEAN, k \in 0..MaxChildren :
           IF fail
           THEN /\ dpc' = "done"
                /\ dirRet' = [status |-> "ENOENT", entries |-> <<>>]
                /\ UNCHANGED <<children, arrays, dirEntries, chanLimiter>>
           ELSE /\ children' = [i \in 1..k |-> ChildName(i)]
                /\ arrays' = <<MakeArray(1, <<MarkerEntry>>)>>
                /\ dirEntries' = [ptr |-> 1, len |-> 1, cap |-> 1]
                /\ IF k = 0
                   THEN /\ dpc' = "done"
                        /\ dirRet' = [status |-> "OK", entries |-> <<MarkerEntry>>]
                        /\ UNCHANGED chanLimiter
                   ELSE /\ dpc' = "go"
                        /\ chanLimiter' = [cap |-> Min(MaxConcurrentRequests, k), len |-> 0]
                        /\ UNCHANGED dirRet
    /\ UNCHANGED <<wpc, probe, loaded>>
    /\ dirFrame

\* One round of the loop: wg.Add(1) and the go statement for the next child.
OpenDirGo ==
    /\ dpc = "go"
    /\ wpc' = Append(wpc, "acquire")
    /\ probe' = Append(probe, NoProbe)
    /\ loaded' = Append(loaded, NoLoad)
    /\ dpc' = IF Len(wpc) + 1 = Len(children) THEN "wait" ELSE "go"
    /\ UNCHANGED <<children, chanLimiter, arrays, dirEntries, dirRet>>
    /\ dirFrame

\* chanLimiter <- struct{}{}
Acquire(i) ==
    /\ wpc[i] = "acquire"
    /\ chanLimiter.len < chanLimiter.cap
    /\ chanLimiter' = [chanLimiter EXCEPT !.len = @ + 1]
    /\ wpc' = [wpc EXCEPT ![i] = "probe"]
    /\ UNCHANGED <<dpc, children, probe, arrays, dirEntries, loaded, dirRet>>
    /\ dirFrame

\* Probe without the two early returns.
ProbeKeepsAll(i) ==
    /\ wpc[i] = "probe"
    /\ \E r \in ProbeResults :
           /\ probe' = [probe EXCEPT ![i] = r]
           /\ wpc' = [wpc EXCEPT ![i] = "load"]
    /\ UNCHANGED <<dpc, children, chanLimiter, arrays, dirEntries, loaded, dirRet>>
    /\ dirFrame

\* f.zh.Exists on the child, and the two early returns
Probe(i) ==
    /\ wpc[i] = "probe"
    /\ \E r \in ProbeResults :
           /\ probe' = [probe EXCEPT ![i] = r]
           /\ wpc' = [wpc EXCEPT ![i] = IF r.err \/ ~r.found THEN "release" ELSE "load"]
    /\ UNCHANGED <<dpc, children, chanLimiter, arrays, dirEntries, loaded, dirRet>>
    /\ dirFrame

\* append: the load of the header of dirEntries
AppendLoad(i) ==
    /\ wpc[i] = "load"
    /\ loaded' = [loaded EXCEPT ![i] = [NoLoad EXCEPT !.ptr = dirEntries.ptr,
                                                      !.len = dirEntries.len,
                                                      !.cap = dirEntries.cap]]
    /\ wpc' = [wpc EXCEPT ![i] = IF dirEntries.len + 1 > dirEntries.cap
                                 THEN "grow" ELSE "store"]
    /\ UNCHANGED <<dpc, children, probe, chanLimiter, arrays, dirEntries, dirRet>>
    /\ dirFrame

\* append: a new array of twice the capacity, the elements copied into it
AppendGrow(i) ==
    /\ wpc[i] = "grow"
    /\ arrays' = Append(arrays, MakeArray(2 * loaded[i].cap,
                                          SubSeq(arrays[loaded[i].ptr], 1, loaded[i].len)))
    /\ loaded' = [loaded EXCEPT ![i].ptr = Len(arrays) + 1,
                                ![i].cap = 2 * loaded[i].cap,
                                ![i].grown = TRUE]
    /\ wpc' = [wpc EXCEPT ![i] = "store"]
    /\ UNCHANGED <<dpc, children, probe, chanLimiter, dirEntries, dirRet>>
    /\ dirFrame

\* Where the goroutine is once the element and the header are both stored
Stored(l) == IF l.elem /\ l.header THEN "release" ELSE "store"

\* append: the store of the new element
AppendElem(i) ==
    /\ wpc[i] = "store"
    /\ ~loaded[i].elem
    /\ arrays' = [arrays EXCEPT ![loaded[i].ptr][loaded[i].len + 1] =
                                    ProbeEntry(children[i], probe[i])]
    /\ loaded' = [loaded EXCEPT ![i].elem = TRUE]
    /\ wpc' = [wpc EXCEPT ![i] = Stored(loaded'[i])]
    /\ UNCHANGED <<dpc, children, probe, chanLimiter, dirEntries, dirRet>>
    /\ dirFrame

\* append: the store of the header of dirEntries
AppendHeader(i) ==
    /\ wpc[i] = "store"
    /\ ~loaded[i].header
    /\ dirEntries' = IF loaded[i].grown
                     THEN [ptr |-> loaded[i].ptr, len |-> loaded[i].len + 1,
                           cap |-> loaded[i].cap]
                     ELSE [dirEntries EXCEPT !.len = loaded[i].len + 1]
    /\ loaded' = [loaded EXCEPT ![i].header = TRUE]
    /\ wpc' = [wpc EXCEPT ![i] = Stored(loaded'[i])]
    /\ UNCHANGED <<dpc, children, probe, chanLimiter, arrays, dirRet>>
    /\ dirFrame

\* The deferred calls: <-chanLimiter and wg.Done()
Release(i) ==
    /\ wpc[i] = "release"
    /\ chanLimiter' = [chanLimiter EXCEPT !.len = @ - 1]
    /\ wpc' = [wpc EXCEPT ![i] = "done"]
    /\ UNCHANGED <<dpc, children, probe, arrays, dirEntries, loaded, dirRet>>
    /\ dirFrame

\* wg.Wait() and the return of dirEntries
OpenDirWait ==
    /\ dpc = "wait"
    /\ \A i \in 1..Len(wpc) : wpc[i] = "done"
    /\ dirRet' = [status |-> "OK", entries |-> SliceOf(arrays, dirEntries)]
    /\ dpc' = "done"
    /\ UNCHANGED <<children, wpc, probe, chanLimiter, arrays, dirEntries, loaded>>
    /\ dirFrame

InitDir ==
    /\ ZKRoot = <<"/", "c">>
    /\ FuseMount = <<"/", "m">>
    /\ IsReadWrite \in BOOLEAN
    /\ tree = <<>>
    /\ ff = NoFile
    /\ ret = NoRet
    /\ pathIdle
    /\ dirIdle

NextDir ==
    \/ OpenDirList
    \/ OpenDirGo
    \/ \E i \in 1..Len(wpc) : Acquire(i)
    \/ \E i \in 1..Len(wpc) : Probe(i)
    \/ \E i \in 1..Len(wpc) : AppendLoad(i)
    \/ \E i \in 1..Len(wpc) : AppendGrow(i)
    \/ \E i \in 1..Len(wpc) : AppendElem(i)
    \/ \E i \in 1..Len(wpc) : AppendHeader(i)
    \/ \E i \in 1..Len(wpc) : Release(i)
    \/ OpenDirWait

SpecDir == InitDir /\ [][NextDir]_vars

---------------------------------------------------------------------------
(* SpecLimit: the channel of OpenDir over up to MaxConcurrentRequests +    *)
(* MaxOver children. The goroutines run the same code, so the state is the *)
(* number of them at each position: blocked on the send to chanLimiter     *)
(* (acquire), inside f.zh.Exists (probe), past it with the deferred        *)
(* receive still to run (release), finished (done). The listing they build *)
(* is the subject of SpecDir and is left out here.                         *)

limitFrame ==
    UNCHANGED <<cfgVars, fsVars, pathVars, children, wpc, probe, arrays,
                dirEntries, loaded, dirRet>>

\* The goroutines started so far
Started(w) == w.acquire + w.probe + w.release + w.done

\* OpenDir up to the loop: Children, the early returns, and the channel of
\* min(MaxConcurrentRequests, len(children)) slots.
LimitList ==
    /\ dpc = "idle"
    /\ \E fail \in BOOLEAN, k \in 0..(MaxConcurrentRequests + MaxOver) :
           IF fail \/ k = 0
           THEN /\ dpc' = "done"
                /\ UNCHANGED <<workers, chanLimiter>>
           ELSE /\ dpc' = "go"
                /\ workers' = [workers EXCEPT !.n = k]
                /\ chanLimiter' = [cap |-> Min(MaxConcurrentRequests, k), len |-> 0]
    /\ limitFrame

\* One turn of the loop: wg.Add(1) and the go statement; after the last child
\* the call is at wg.Wait.
LimitGo ==
    /\ dpc = "go"
    /\ IF Started(workers) < workers.n
       THEN /\ workers' = [workers EXCEPT !.acquire = @ + 1]
            /\ UNCHANGED dpc
       ELSE /\ dpc' = "wait"
            /\ UNCHANGED workers
    /\ UNCHANGED chanLimiter
    /\ limitFrame

\* chanLimiter <- struct{}{}: blocks while the channel is full
LimitAcquire ==
    /\ workers.acquire > 0
    /\ chanLimiter.len < chanLimiter.cap
    /\ chanLimiter' = [chanLimiter EXCEPT !.len = @ + 1]
    /\ workers' = [workers EXCEPT !.acquire = @ - 1, !.probe = @ + 1]
    /\ UNCHANGED dpc
    /\ limitFrame

\* f.zh.Exists returns early without running the deferred receive.
LimitExistsNoDefer ==
    /\ workers.probe > 0
    /\ \E r \in ProbeResults :
           IF r.err \/ ~r.found
           THEN workers' = [workers EXCEPT !.probe = @ - 1, !.done = @ + 1]
           ELSE workers' = [workers EXCEPT !.probe = @ - 1, !.release = @ + 1]
    /\ UNCHANGED <<dpc, chanLimiter>>
    /\ limitFrame

\* f.zh.Exists returns: with an error, without a node or with one, the
\* goroutine goes on to its deferred calls (after the append, for a node).
LimitExists ==
    /\ workers.probe > 0
    /\ \E r \in ProbeResults :
           workers' = [workers EXCEPT !.probe = @ - 1, !.release = @ + 1]
    /\ UNCHANGED <<dpc, chanLimiter>>
    /\ limitFrame

\* The deferred calls without the receive from chanLimiter.
LimitReleaseKeepsSlot ==
    /\ workers.release > 0
    /\ workers' = [workers EXCEPT !.release = @ - 1, !.done = @ + 1]
    /\ UNCHANGED <<dpc, chanLimiter>>
    /\ limitFrame

\* The deferred calls: <-chanLimiter, then wg.Done
LimitRelease ==
    /\ workers.release > 0
    /\ chanLimiter' = [chanLimiter EXCEPT !.len = @ - 1]
    /\ workers' = [workers EXCEPT !.release = @ - 1, !.done = @ + 1]
    /\ UNCHANGED dpc
    /\ limitFrame

\* wg.Wait returns when every goroutine has called wg.Done; OpenDir returns.
LimitWait ==
    /\ dpc = "wait"
    /\ workers.done = workers.n
    /\ dpc' = "done"
    /\ UNCHANGED <<workers, chanLimiter>>
    /\ limitFrame

InitLimit ==
    /\ ZKRoot = <<"/", "c">>
    /\ FuseMount = <<"/", "m">>
    /\ IsReadWrite = FALSE
    /\ tree = <<>>
    /\ ff = NoFile
    /\ ret = NoRet
    /\ pathIdle
    /\ dirIdle

NextLimit ==
    \/ LimitList
    \/ LimitGo
    \/ LimitAcquire
    \/ LimitExists
    \/ LimitRelease
    \/ LimitWait

SpecLimit == InitLimit /\ [][NextLimit]_vars

\* The goroutines the Go scheduler runs get to run, and every call of
\* f.zh.Exists returns.
LimitFairness ==
    /\ WF_vars(LimitList)
    /\ WF_vars(LimitGo)
    /\ WF_vars(LimitAcquire)
    /\ WF_vars(LimitExists)
    /\ WF_vars(LimitRelease)
    /\ WF_vars(LimitWait)

SpecLimitFair == InitLimit /\ [][NextLimit]_vars /\ LimitFairness

---------------------------------------------------------------------------
(* Properties of OpenDir, under SpecDir.                                   *)

\* The number of entries of a listing that carry a name.
Named(entries, name) == Cardinality({j \in 1..Len(entries) : entries[j].Name = name})

\* The children whose probe reported them present.
FoundChildren == {i \in 1..Len(probe) : ~probe[i].err /\ probe[i].found}

\* C1: when listChildren succeeded, the listing OpenDir returns holds the marker
\* entry once and one entry for each child whose probe reported it present, and
\* nothing else, whatever the interleaving of the probe goroutines.
OpenDirListingExact ==
    (dpc = "done" /\ dirRet.status = "OK") =>
        /\ Named(dirRet.entries, ZNodeMarker) = 1
        /\ \A i \in 1..Len(children) :
               Named(dirRet.entries, children[i]) = IF i \in FoundChildren THEN 1 ELSE 0
        /\ Len(dirRet.entries) = 1 + Cardinality(FoundChildren)

---------------------------------------------------------------------------
(* Properties of the path translator, under SpecPath.                      *)

Translated == zkOut # Empty

\* The elements of a path that name something: not empty and not ".".
IsName(seg) == seg # Empty /\ seg # Dot
Names(p) == SelectSeq(Split(p), IsName)

NoDotDot(p) == \A i \in 1..Len(Split(p)) : Split(p)[i] # DotDot

\* The absolute path made of the names of the alias a and then those of p.
Normalized(a, p) == Slash \o JoinSlash(Names(a) \o Names(p))

ZKPathMarkerIsParent ==
    Translated => ZKPath(zkIn \o Slash \o ZNodeMarker) = zkOut

\* C5: for every root alias and every path, ".." elements included, ZKPath(p)
\* is the alias or a path below it.
ZKPathConfined ==
    Translated => IsBelow(zkOut, ZKRoot)

---------------------------------------------------------------------------
(* Properties of GetAttr and Unlink, under Spec.                           *)

\* The number of children of the node a path names, in the store t.
ChildCount(t, path) == Cardinality(Kids(t, ZKPath(path)))

\* Regular file and directory modes, in octal 0100000 and 0040000 plus the
\* permission bits 0644, 0444, 0755 and 0555.
RegularRW == 32768 + 420
RegularRO == 32768 + 292
DirectoryRW == 16384 + 493
DirectoryRO == 16384 + 365

\* C2: for every existing path other than the root, the mode GetAttr returns is
\* decided by whether the path ends in the marker name, the child count and the
\* read-write flag: a read-only regular file for a marker path whatever the
\* child count and the flag; else a regular file (0644 read-write, 0444
\* read-only) for child count 0 and a directory (0755, 0555) for more.
GetAttrModeClassifies ==
    [][(ret'.op = "GetAttr" /\ ret'.path # Empty /\ ret'.status = "OK" /\ GetAttr) =>
           ret'.mode = IF HasSuffix(ret'.path, ZNodeMarker) THEN RegularRO
                       ELSE IF ChildCount(tree, ret'.path) = 0
                       THEN (IF IsReadWrite THEN RegularRW ELSE RegularRO)
                       ELSE (IF IsReadWrite THEN DirectoryRW ELSE DirectoryRO)]_vars

\* GetAttr of a marker path whose node has a child, on a read-write mount.
GetAttrModeWitness ==
    /\ ret.op = "GetAttr"
    /\ ret.status = "OK"
    /\ HasSuffix(ret.path, ZNodeMarker)
    /\ ChildCount(tree, ret.path) > 0
    /\ IsReadWrite
    /\ ret.mode = RegularRO

\* C10: Unlink of a path ending in the marker name returns EPERM whatever the
\* read-write flag, calls nothing of the gateway and leaves the tree as it was.
UnlinkMarkerRefused ==
    [][(ret'.op = "Unlink" /\ HasSuffix(ret'.path, ZNodeMarker) /\ Unlink) =>
           /\ ret'.status = "EPERM"
           /\ ret'.calls = <<>>
           /\ ret'.wire = <<>>
           /\ tree' = tree]_vars

\* Unlink of a marker path whose node exists, on a read-write mount.
UnlinkMarkerWitness ==
    /\ ret.op = "Unlink"
    /\ HasSuffix(ret.path, ZNodeMarker)
    /\ ret.status = "EPERM"
    /\ IsReadWrite
    /\ Present(tree, ZKPath(ret.path))

---------------------------------------------------------------------------
(* Properties of the open file, under SpecFile. Read leaves the file as it *)
(* is, so after a Read ff is the file that was read.                       *)

\* C6: Read with an offset from 0 to the snapshot's length L returns OK and the
\* min(len(buf), L - off) bytes of the snapshot from off on, in order: none
\* when off = L.
ReadInRange ==
    (ret.op = "Read" /\ ret.off >= 0 /\ ret.off <= Len(ff.data)) =>
        /\ ~ret.panic
        /\ ret.status = "OK"
        /\ Len(ret.data) = Min(ret.buflen, Len(ff.data) - ret.off)
        /\ \A j \in 1..Len(ret.data) : ret.data[j] = ff.data[ret.off + j]
        /\ ret.off = Len(ff.data) => ret.data = <<>>

\* A Read from inside the snapshot into a buffer longer than what is left.
ReadInRangeWitness ==
    /\ ret.op = "Read"
    /\ ret.status = "OK"
    /\ ret.off > 0
    /\ ret.off < Len(ff.data)
    /\ ret.buflen > Len(ff.data) - ret.off
    /\ Len(ret.data) = Len(ff.data) - ret.off

\* C7, as the code has it: Read with an offset past the snapshot's length
\* returns no data and no status: the call panics.
ReadPastEndPanics ==
    (ret.op = "Read" /\ ret.off > Len(ff.data)) =>
        /\ ret.panic
        /\ ret.data = <<>>
        /\ ret.status = "none"

\* A Read one past the end of a non-empty snapshot.
ReadPastEndWitness ==
    /\ ret.op = "Read"
    /\ Len(ff.data) > 0
    /\ ret.off = Len(ff.data) + 1
    /\ ret.buflen > 0
    /\ ret.panic

\* C7, as stated: Read with an offset past the snapshot's length is rejected
\* with the invalid-argument status, returns no data and does not panic.
ReadPastEndRejected ==
    (ret.op = "Read" /\ ret.off > Len(ff.data)) =>
        /\ ret.status = "EINVAL"
        /\ ret.data = <<>>
        /\ ~ret.panic

\* C8: Write of non-empty content makes one call of the gateway, Set on the
\* file's own path with the whole content and version -1, whatever the offset.
\* When Set succeeds Write returns OK and the length the store reports (that of
\* the content) and records it as the file's size; when Set fails Write returns
\* 0 and EIO and the recorded size stays.
WriteNonEmpty ==
    [][(ret'.op = "Write" /\ Len(ret'.content) > 0 /\ Write) =>
           /\ ret'.calls = <<Call("Set", ff.path, ret'.content, 0 - 1)>>
           /\ ret'.wire = <<Call("Set", ZKPath(ff.path), ret'.content, 0 - 1)>>
           /\ \/ /\ ret'.status = "OK"
                 /\ tree'[ZKPath(ff.path)] = Node(ret'.content)
                 /\ ret'.n = Len(ret'.content)
                 /\ ff'.size = ret'.n
              \/ /\ ret'.status = "EIO"
                 /\ ret'.n = 0
                 /\ ff'.size = ff.size
                 /\ tree' = tree]_vars

\* A Write at offset 1 of content longer than the snapshot, which succeeded.
WriteNonEmptyWitness ==
    /\ ret.op = "Write"
    /\ ret.status = "OK"
    /\ ret.off = 1
    /\ Len(ret.content) > Len(ff.data)
    /\ ret.n = Len(ret.content)
    /\ ff.size = ret.n

\* C9: Write of empty content returns 0 and OK, calls nothing of the gateway and
\* leaves the node, the file's snapshot and its recorded size as they were.
WriteEmpty ==
    [][(ret'.op = "Write" /\ Len(ret'.content) = 0 /\ Write) =>
           /\ ret'.n = 0
           /\ ret'.status = "OK"
           /\ ret'.calls = <<>>
           /\ ret'.wire = <<>>
           /\ tree' = tree
           /\ ff' = ff]_vars

\* A Write of empty content to a file that holds data, its node being present.
WriteEmptyWitness ==
    /\ ret.op = "Write"
    /\ ret.content = <<>>
    /\ ret.status = "OK"
    /\ ret.n = 0
    /\ ff.size > 0
    /\ Present(tree, ZKPath(ff.path))
    /\ tree[ZKPath(ff.path)].data # <<>>

---------------------------------------------------------------------------
(* Properties of Rmdir, under Spec.                                        *)

\* A step in which Rmdir returns: it leaves an Rmdir result in ret, and it is
\* not the step of another client, which leaves ret as it is.
RmdirReturns == ret'.op = "Rmdir" /\ (ret' # ret \/ ~External)

\* What C11 says of an Rmdir that returned r, zp being the node its Exists
\* probed, before the tree when it was called and after the tree it left.
RmdirOutcome(r, zp, before, after) ==
    /\ r.calls[1] = Call("Exists", r.path, <<>>, 0)
    /\ \/ /\ Len(r.calls) = 1
          /\ after = before
          /\ r.status \in {"ENOENT", "ENOTDIR"}
          /\ ~Present(before, zp) => r.status = "ENOENT"
          /\ r.status = "ENOTDIR" =>
                 Present(before, zp) /\ Cardinality(Kids(before, zp)) = 0
          /\ Cardinality(Kids(before, zp)) > 0 => r.status = "ENOENT"
       \/ /\ Len(r.calls) = 2
          /\ r.calls[2] = Call("Delete", r.path, <<>>, 0 - 1)
          /\ Present(before, zp)
          /\ Cardinality(Kids(before, zp)) > 0
          /\ r.status = "OK" <=> ~Present(after, zp)
          /\ r.status # "OK" => after = before

---------------------------------------------------------------------------
(* Properties of the gateway's Set, under SpecSet.                         *)

\* A step in which Set returns (another client's step leaves ret as it is).
SetReturns == ret'.op = "Set" /\ (ret' # ret \/ ~External)

\* C12: Set refuses every payload longer than 1,048,576 bytes with an error
\* before any call reaches the wire client, the node staying as it was; a
\* payload of 1,048,576 bytes or fewer goes to the wire client, in one call
\* for the translated path with the version given, and is what the node
\* holds when the call succeeds.
SetSizeChecked ==
    [][SetReturns =>
           IF ret'.n > 1048576
           THEN /\ ret'.status = "error"
                /\ ret'.wire = <<>>
                /\ tree' = tree
           ELSE /\ Len(ret'.wire) = 1
                /\ ret'.wire[1].op = "Set"
                /\ ret'.wire[1].path = ZKPath(ret'.path)
                /\ ret'.wire[1].version = 0 - 1
                /\ Len(ret'.wire[1].data) = ret'.n
                /\ ret'.status = "OK" =>
                       tree'[ret'.wire[1].path] = Node(ret'.wire[1].data)]_vars

\* A payload of 1,048,577 bytes refused, the node being there to take it.
SetSizeWitness ==
    /\ ret.op = "Set"
    /\ ret.n = 1048577
    /\ ret.status = "error"
    /\ ret.wire = <<>>
    /\ Present(tree, ZKPath(ret.path))

---------------------------------------------------------------------------
(* Properties of a read-only mount, under Spec.                            *)

\* The calls of an operation that change the store.
Mutations(calls) ==
    {i \in 1..Len(calls) : calls[i].op \in {"Create", "Set", "Delete"}}

\* C13: on a mount whose read-write flag is false, Create, Unlink, Rmdir and
\* Write return EPERM and call no Create, Set or Delete of the gateway.
ReadOnlyMountRefuses ==
    (~IsReadWrite /\ ret.op \in {"Create", "Unlink", "Rmdir", "Write"}) =>
        /\ ret.status = "EPERM"
        /\ Mutations(ret.calls) = {}
        /\ ret.wire = <<>> \/ ret.wire[Len(ret.wire)].op = "Exists"

---------------------------------------------------------------------------
(* Properties of OpenDir's failures, under SpecDir. OpenDir returns before *)
(* it allocates the listing only when Children failed: arrays is then      *)
(* empty.                                                                  *)

\* C14: OpenDir fails only when listChildren fails, and then returns ENOENT with
\* no listing, not even the marker entry, and without starting a probe. When
\* listChildren succeeds OpenDir returns OK whatever the probes return, and a
\* child whose probe failed or found nothing has no entry in the listing.
OpenDirFailsOnlyOnList ==
    dpc = "done" =>
        /\ dirRet.status \in {"OK", "ENOENT"}
        /\ dirRet.status = "ENOENT" <=> arrays = <<>>
        /\ dirRet.status = "ENOENT" =>
               dirRet.entries = <<>> /\ wpc = <<>> /\ probe = <<>>
        /\ dirRet.status = "OK" =>
               \A i \in 1..Len(children) :
                   i \notin FoundChildren => Named(dirRet.entries, children[i]) = 0

\* An OpenDir that returned OK with one probe failed, one child absent and one
\* child found.
OpenDirFailsWitness ==
    /\ dpc = "done"
    /\ dirRet.status = "OK"
    /\ \E i \in 1..Len(probe) : probe[i].err
    /\ \E i \in 1..Len(probe) : ~probe[i].err /\ ~probe[i].found
    /\ \E i \in FoundChildren : Named(dirRet.entries, children[i]) = 1

---------------------------------------------------------------------------
(* Properties of the channel of OpenDir, under SpecLimit.                  *)

\* C15: during one OpenDir over k children, the probes started and not yet
\* returned are never more than min(MaxConcurrentRequests, k): a goroutine is
\* inside Exists only while it holds a slot of the channel, and every goroutine
\* that left Exists, whatever Exists returned, gives its slot back before it
\* is done.
ProbesBounded ==
    /\ workers.probe <= Min(MaxConcurrentRequests, workers.n)
    /\ chanLimiter.len = workers.probe + workers.release
    /\ chanLimiter.len <= chanLimiter.cap
    /\ chanLimiter.cap = Min(MaxConcurrentRequests, workers.n)
    /\ Started(workers) <= workers.n

\* More children than MaxConcurrentRequests, MaxConcurrentRequests probes in
\* flight, and a goroutine blocked on the channel that is full.
ProbesBoundedWitness ==
    /\ workers.n > MaxConcurrentRequests
    /\ workers.probe = MaxConcurrentRequests
    /\ workers.acquire > 0

---------------------------------------------------------------------------
(* Properties of OpenDir's termination, under SpecLimitFair.               *)

\* C16: OpenDir returns only after every goroutine has finished and given its
\* slot back, and, every call of Exists returning, OpenDir does return, for
\* every number of children, more than MaxConcurrentRequests included.
OpenDirReturns ==
    /\ [](dpc = "done" => workers.done = workers.n /\ chanLimiter.len = 0)
    /\ <>(dpc = "done")

\* OpenDir returned after more goroutines than the channel has slots ran.
OpenDirReturnsWitness ==
    /\ dpc = "done"
    /\ workers.n > MaxConcurrentRequests
    /\ workers.done = workers.n

---------------------------------------------------------------------------
(* Properties of the handle's snapshot, under SpecFile. The model has one  *)
(* handle; a Write through another handle on the same path is a Set by     *)
(* another client of the store, one of the steps of External.              *)

\* C17: the data of a handle is set when the handle is made and never after:
\* Open makes it the payload Get returned, Create makes it empty; a Write
\* changes at most the recorded size of the handle, and a change of the node
\* by anyone changes nothing of the handle. Every Read returns a piece of
\* that data, whatever the node holds by then.
SnapshotFixedAtOpen ==
    [][/\ ff'.data # ff.data =>
              /\ ret'.op \in {"Open", "Create"}
              /\ ret'.status = "OK"
       /\ (ff' # ff /\ ret'.op = "Open") =>
              /\ ret'.wire[1].op = "Get"
              /\ ff'.data = tree[ret'.wire[1].path].data
              /\ tree' = tree
       /\ (ff' # ff /\ ret'.op = "Create") => ff'.data = <<>>
       /\ (ff' # ff /\ ret'.op = "Write") =>
              /\ ret'.status = "OK"
              /\ ff' = [ff EXCEPT !.size = ret'.n]
       /\ tree' # tree =>
              \/ ff' = ff
              \/ ret'.op = "Create"
              \/ ret'.op = "Write" /\ ff'.data = ff.data
       /\ (ret'.op = "Read" /\ ret'.status = "OK") =>
              /\ ff'.data = ff.data
              /\ ret'.off + Len(ret'.data) <= Len(ff.data)
              /\ ret'.data = SubSeq(ff.data, ret'.off + 1, ret'.off + Len(ret'.data))
      ]_vars

\* A Read that returned bytes of the snapshot after a Write through the handle
\* changed its recorded size and the node no longer holds what was opened.
SnapshotFixedWitness ==
    /\ ret.op = "Read"
    /\ ret.status = "OK"
    /\ ret.data # <<>>
    /\ ff.size # Len(ff.data)
    /\ \A zp \in DOMAIN tree : ~Present(tree, zp)

---------------------------------------------------------------------------
(* Properties of the status of a failed delete, under Spec.                *)

\* C18: when the gateway's Delete returns an error, Unlink returns EIO and
\* Rmdir returns EIO as well.
DeleteFailureIsEIO ==
    (/\ ret.op \in {"Unlink", "Rmdir"}
     /\ ret.calls # <<>>
     /\ ret.calls[Len(ret.calls)].op = "Delete"
     /\ ret.status # "OK") => ret.status = "EIO"

====
